---------------------------- MODULE Spec2Model ----------------------------
(***************************************************************************)
(* Model of the FastAPI user-management backend (src/src/app): the user    *)
(* table, the bearer tokens held by clients, the clock, and one action per *)
(* HTTP endpoint of routes/v1/auth.py and routes/v1/users.py, each built   *)
(* from the service and repository functions it calls.                     *)
(***************************************************************************)
EXTENDS Integers, Sequences, FiniteSets, TLC

VARIABLES
    users,     \* the users table: a function from the ids present to rows
    tokens,    \* the bearer tokens clients hold (issued by login)
    now,       \* the clock (datetime.utcnow), in minutes
    pending,   \* a registration that passed the service checks in another
               \* worker and has not inserted yet (NoPending when none)
    resp       \* the HTTP response of the request served by the last step

vars == <<users, tokens, now, pending, resp>>

---------------------------------------------------------------------------
(* Bounds of the model *)

MaxId == 2          \* ids the users table may hand out
MaxTicks == 2       \* how many times the clock advances
TickMinutes == 20   \* minutes per clock step
MaxTokens == 1      \* tokens the clients keep

(* Program constants *)

access_token_expire_minutes == 30
secret_key == "your-secret-key-change-in-production"

---------------------------------------------------------------------------
(* Text: strings the code inspects character by character are sequences   *)
(* of one-character strings.                                              *)

UPPER == <<"A","B","C","D","E","F","G","H","I","J","K","L","M",
           "N","O","P","Q","R","S","T","U","V","W","X","Y","Z">>
LOWER == <<"a","b","c","d","e","f","g","h","i","j","k","l","m",
           "n","o","p","q","r","s","t","u","v","w","x","y","z">>
DIGITS == {"0","1","2","3","4","5","6","7","8","9"}

Range(s) == {s[i] : i \in DOMAIN s}

\* two characters outside ASCII: the capital I with dot above (U+0130), an
\* uppercase letter, and the combining dot above (U+0307), a mark that is
\* neither a letter nor a digit
DotI == "U+0130"
DotAbove == "U+0307"

isupper(c) == c \in Range(UPPER) \cup {DotI}
islower(c) == c \in Range(LOWER)
isdigit(c) == c \in DIGITS

\* str.isalnum(): non-empty and every character a letter or a digit
isalnum(s) == Len(s) > 0 /\ \A i \in DOMAIN s : isupper(s[i]) \/ islower(s[i]) \/ isdigit(s[i])

\* str.lower() of one character: U+0130 lowers to two characters, "i" and
\* the combining dot above
lower_char(c) ==
    IF c = DotI THEN <<"i", DotAbove>>
    ELSE IF isupper(c) THEN <<LOWER[CHOOSE i \in DOMAIN UPPER : UPPER[i] = c]>>
    ELSE <<c>>

\* str.lower()
RECURSIVE lower(_)
lower(s) == IF s = <<>> THEN <<>> ELSE lower_char(Head(s)) \o lower(Tail(s))

NullStr == "None"       \* Python None in a string-valued field
NullName == <<>>        \* Python None in a username field
NoLogin == -1           \* Python None in last_login

---------------------------------------------------------------------------
(* Inputs the requests draw from *)

AdminEmail == "admin@x.com"
Emails == {AdminEmail, "a@x.com"}
BadEmail == "not-an-email"

AdminName == <<"a","d","m","i","n">>
Names == {AdminName, <<"B","o","b","1">>, <<"b","o","b","1">>}
BadNames == {<<"a","_","b">>, <<"a","b">>}
DotName == <<DotI,"b","c">>

AdminPw == <<"A","d","m","i","n","1","2","3">>
GoodPw == <<"P","a","s","s","w","0","r","d">>
WeakPw == <<"w","e","a","k">>

\* passwords that miss the policy in one respect each: length, uppercase,
\* lowercase, digit
ShortPw == <<"P","a","s","s","w","0","r">>
NoUpperPw == <<"p","a","s","s","w","0","r","d">>
NoLowerPw == <<"P","A","S","S","W","0","R","D">>
NoDigitPw == <<"P","a","s","s","w","o","r","d">>
PolicyProbes == {ShortPw, NoUpperPw, NoLowerPw, NoDigitPw}

\* bcrypt hashes the first 72 bytes of a password and ignores the rest
bcrypt_max_bytes == 72

\* two passwords of 73 characters that differ in the last one only
LongPw == GoodPw \o [i \in 1..(bcrypt_max_bytes - Len(GoodPw)) |-> "x"] \o <<"1">>
LongPw2 == GoodPw \o [i \in 1..(bcrypt_max_bytes - Len(GoodPw)) |-> "x"] \o <<"2">>

Passwords == <<AdminPw, GoodPw, WeakPw, LongPw, LongPw2>>

FullNames == {"Alice"}

AbsentId == 99999
Ids == 1..MaxId

---------------------------------------------------------------------------
(* Password hashing (passlib bcrypt): a salted digest.  The salt is drawn  *)
(* by the caller; verification recomputes the digest with the hash's salt. *)

MaxSalt == 1
Salts == 1..MaxSalt

\* what bcrypt reads of a password
Truncate(p) == SubSeq(p, 1, IF Len(p) < bcrypt_max_bytes THEN Len(p) ELSE bcrypt_max_bytes)

\* a number for what bcrypt reads of the password: equal for two passwords
\* exactly when bcrypt reads the same bytes of both
PwIndex(p) ==
    LET same == {i \in DOMAIN Passwords : Truncate(Passwords[i]) = Truncate(p)}
    IN  IF same = {} THEN 0
        ELSE CHOOSE i \in same : \A j \in same : i <= j

Digest(salt, p) == salt * 100 + PwIndex(p)

get_password_hash(p, salt) == [salt |-> salt, digest |-> Digest(salt, p)]

\* verify_password looking at the form of the hash only
verify_password_any(plain_password, hashed_password) ==
    hashed_password.salt \in Salts

verify_password(plain_password, hashed_password) ==
    Digest(hashed_password.salt, plain_password) = hashed_password.digest

---------------------------------------------------------------------------
(* Request schemas (pydantic).  A body is a function from the names of    *)
(* the fields it carries to their values; a failed validation is 422.     *)

Has(body, f) == f \in DOMAIN body

ValidEmail(e) == e \in Emails      \* EmailStr

\* UserBase.validate_username / UserUpdate.validate_username with the
\* Field(min_length=3, max_length=50) constraint
username_ok(v) == Len(v) >= 3 /\ Len(v) <= 50 /\ isalnum(v)

\* validate_password checking the length only
validate_password_len_only(v) == Len(v) >= 8

\* UserCreate.validate_password and PasswordChange.validate_new_password
validate_password(v) ==
    /\ Len(v) >= 8
    /\ \E i \in DOMAIN v : isupper(v[i])
    /\ \E i \in DOMAIN v : islower(v[i])
    /\ \E i \in DOMAIN v : isdigit(v[i])

\* UserCreate: email, username and password are required
UserCreate_valid(body) ==
    /\ Has(body, "email") /\ ValidEmail(body.email)
    /\ Has(body, "username") /\ username_ok(body.username)
    /\ Has(body, "password") /\ validate_password(body.password)

\* UserCreate_parse with the username kept as submitted
UserCreate_parse_keeps_case(body) ==
    [email     |-> body.email,
     username  |-> body.username,
     full_name |-> IF Has(body, "full_name") THEN body.full_name ELSE NullStr,
     is_active |-> IF Has(body, "is_active") THEN body.is_active ELSE TRUE,
     password  |-> body.password]

\* the validated UserCreate object: username lowercased, defaults filled,
\* fields the schema does not declare dropped
UserCreate_parse(body) ==
    [email     |-> body.email,
     username  |-> lower(body.username),
     full_name |-> IF Has(body, "full_name") THEN body.full_name ELSE NullStr,
     is_active |-> IF Has(body, "is_active") THEN body.is_active ELSE TRUE,
     password  |-> body.password]

\* UpdateFields with is_superuser declared by the schema
UpdateFields_with_superuser ==
    {"email", "username", "full_name", "is_active", "is_superuser"}

UpdateFields == {"email", "username", "full_name", "is_active"}

\* UserUpdate: every field optional, None accepted
UserUpdate_valid(body) ==
    /\ Has(body, "email") /\ body.email # NullStr => ValidEmail(body.email)
    /\ Has(body, "username") /\ body.username # NullName => username_ok(body.username)

\* the validated UserUpdate object: the fields set, username lowercased
UserUpdate_parse(body) ==
    [f \in DOMAIN body \cap UpdateFields |->
        IF f = "username" THEN lower(body[f]) ELSE body[f]]

\* UserLogin: email, password and confirm_password are all required
UserLogin_valid(body) ==
    /\ Has(body, "email") /\ ValidEmail(body.email)
    /\ Has(body, "password")
    /\ Has(body, "confirm_password")

PasswordChange_valid(body) ==
    /\ Has(body, "current_password")
    /\ Has(body, "new_password") /\ validate_password(body.new_password)

---------------------------------------------------------------------------
(* The users table and the repository *)

NoRow == [id |-> 0]
Found(row) == row.id # 0

\* the columns of a row; created_at, written once by the insert and never
\* read or written again, is left out
RowFields == {"id", "updated_at", "email", "username", "full_name",
              "hashed_password", "is_active", "is_verified", "is_superuser",
              "last_login"}

\* IntegrityOK with the unique constraints dropped from the columns
IntegrityOK_no_unique(db) ==
    \A i \in DOMAIN db : db[i].email # NullStr /\ db[i].username # NullName

\* the constraints of the table: primary key, unique email and username,
\* NOT NULL columns
IntegrityOK(db) ==
    /\ \A i, j \in DOMAIN db : i # j => db[i].email # db[j].email
    /\ \A i, j \in DOMAIN db : i # j => db[i].username # db[j].username
    /\ \A i \in DOMAIN db : db[i].email # NullStr /\ db[i].username # NullName

\* the id the table gives a new row (integer primary key: one past the
\* largest id present)
NextId(db) == IF DOMAIN db = {} THEN 1
              ELSE (CHOOSE m \in DOMAIN db : \A i \in DOMAIN db : i <= m) + 1

Min(S) == CHOOSE m \in S : \A i \in S : m <= i

\* BaseRepository.get
Repo_get(db, id) == IF id \in DOMAIN db THEN db[id] ELSE NoRow

\* UserRepository.get_by_email: the first row with the email
get_by_email(db, email) ==
    LET hit == {i \in DOMAIN db : db[i].email = email}
    IN  IF hit = {} THEN NoRow ELSE db[Min(hit)]

\* UserRepository.get_by_username
get_by_username(db, username) ==
    LET hit == {i \in DOMAIN db : db[i].username = username}
    IN  IF hit = {} THEN NoRow ELSE db[Min(hit)]

email_exists(db, email) == Found(get_by_email(db, email))
username_exists(db, username) == Found(get_by_username(db, username))

\* Results of the repository and service calls: what was returned or
\* raised, the table afterwards, and the row returned.
Ok(db, row) == [tag |-> "ok", detail |-> "", db |-> db, row |-> row]
ReturnNone(db) == [tag |-> "none", detail |-> "", db |-> db, row |-> NoRow]
Raise(tag, detail, db) == [tag |-> tag, detail |-> detail, db |-> db, row |-> NoRow]

\* BaseRepository.create: build the row with the column defaults, add and
\* commit; a constraint violation raises and nothing is stored
Repo_create(db, obj_in) ==
    LET id == NextId(db)
        row == [id              |-> id,
                updated_at      |-> now,
                email           |-> obj_in.email,
                username        |-> obj_in.username,
                full_name       |-> obj_in.full_name,
                hashed_password |-> obj_in.hashed_password,
                is_active       |-> IF Has(obj_in, "is_active") THEN obj_in.is_active ELSE TRUE,
                is_verified     |-> IF Has(obj_in, "is_verified") THEN obj_in.is_verified ELSE FALSE,
                is_superuser    |-> IF Has(obj_in, "is_superuser") THEN obj_in.is_superuser ELSE FALSE,
                last_login      |-> NoLogin]
        db2 == (id :> row) @@ db
    IN  IF IntegrityOK(db2) THEN Ok(db2, row)
        ELSE Raise("IntegrityError", "", db)

\* the attributes of a User object besides the columns (models/user.py):
\* a property without a setter, and a method
ReadOnlyAttrs == {"is_authenticated"}
MethodAttrs == {"can_access_admin"}
ModelAttrs == RowFields \cup ReadOnlyAttrs \cup MethodAttrs

\* BaseRepository.update: set the entries naming an attribute of the row
\* (setting the property raises, setting the method name changes no
\* column), commit; the UPDATE, when a column changed, stamps updated_at;
\* None when the id is absent
Repo_update(db, id, obj_in) ==
    LET db_obj == Repo_get(db, id)
        set == [f \in RowFields |->
                  IF f \in DOMAIN obj_in THEN obj_in[f] ELSE db_obj[f]]
        row == IF set = db_obj \/ "updated_at" \in DOMAIN obj_in THEN set
               ELSE [set EXCEPT !.updated_at = now]
        db2 == [db EXCEPT ![id] = row]
    IN  IF ~Found(db_obj) THEN ReturnNone(db)
        ELSE IF DOMAIN obj_in \cap ReadOnlyAttrs # {}
        THEN Raise("AttributeError", "", db)
        ELSE IF IntegrityOK(db2) THEN Ok(db2, row)
        ELSE Raise("IntegrityError", "", db)

\* BaseRepository.delete
Repo_delete(db, id) ==
    IF id \in DOMAIN db
    THEN Ok([i \in DOMAIN db \ {id} |-> db[i]], db[id])
    ELSE ReturnNone(db)

RECURSIVE SortedIds(_)
SortedIds(S) == IF S = {} THEN <<>> ELSE <<Min(S)>> \o SortedIds(S \ {Min(S)})

\* a filter value: a Python list of values, or any other value
List(vs) == [list |-> TRUE, v |-> vs]
Scalar(v) == [list |-> FALSE, v |-> v]

\* the filter loop of get_multi and count: a name that is no attribute of
\* the model class is skipped; a list is IN, any other value equality; the
\* property and the method of the class are attributes but not columns,
\* comparing one with a value is False, which no row satisfies
Matches(row, filters) ==
    \A f \in DOMAIN filters :
        f \in ModelAttrs =>
            IF f \notin RowFields THEN FALSE
            ELSE IF filters[f].list THEN row[f] \in filters[f].v
            ELSE row[f] = filters[f].v

\* BaseRepository.get_multi without order_by: the filters, then offset and
\* limit, in id order

get_multi(db, skip, limit, filters) ==
    LET ids == SortedIds({i \in DOMAIN db : Matches(db[i], filters)})
    IN  [k \in 1..(IF Len(ids) - skip < limit
                   THEN (IF Len(ids) - skip < 0 THEN 0 ELSE Len(ids) - skip)
                   ELSE limit) |-> db[ids[k + skip]]]

---------------------------------------------------------------------------
(* Tokens (python-jose JWT, HS256) and the auth service *)

\* str(user.id) in the "sub" claim, and its coercion back to int by TokenData
ToStr(id) == <<"#", id>>
ToInt(s) == s[2]
NullSub == <<>>

Sign(key, sub, email, exp) == [key |-> key, claims |-> <<sub, email, exp>>]

NoCreds == [sub |-> NullSub, email |-> NullStr, exp |-> 0, sig |-> [key |-> "", claims |-> <<>>]]
Garbage == [sub |-> NullSub, email |-> NullStr, exp |-> 0, sig |-> [key |-> "?", claims |-> <<>>]]

\* AuthService.create_access_token with expires_delta given by login
create_access_token(data, expires_delta, t) ==
    LET expire == t + expires_delta
    IN  [sub   |-> data.sub,
         email |-> data.email,
         exp   |-> expire,
         sig   |-> Sign(secret_key, data.sub, data.email, expire)]

NoTokenData == [user_id |-> 0, email |-> NullStr]

\* jwt_decode_ok with the expiry left unchecked
jwt_decode_ok_no_exp(token, key, t) ==
    token.sig = Sign(key, token.sub, token.email, token.exp)

\* jwt.decode: the signature must be the server's over these claims, and
\* the expiry must not have passed
jwt_decode_ok(token, key, t) ==
    /\ token.sig = Sign(key, token.sub, token.email, token.exp)
    /\ ~(token.exp < t)

\* AuthService_verify_token made to fail once the token's user is gone or
\* inactive
AuthService_verify_token_checks_user(token, t) ==
    IF ~jwt_decode_ok(token, secret_key, t) THEN NoTokenData
    ELSE IF token.sub = NullSub \/ token.email = NullStr THEN NoTokenData
    ELSE IF ToInt(token.sub) \notin DOMAIN users THEN NoTokenData
    ELSE IF ~users[ToInt(token.sub)].is_active THEN NoTokenData
    ELSE [user_id |-> ToInt(token.sub), email |-> token.email]

\* AuthService.verify_token
AuthService_verify_token(token, t) ==
    IF ~jwt_decode_ok(token, secret_key, t) THEN NoTokenData
    ELSE IF token.sub = NullSub \/ token.email = NullStr THEN NoTokenData
    ELSE [user_id |-> ToInt(token.sub), email |-> token.email]

\* AuthService.get_current_user
AuthService_get_current_user(db, token, t) ==
    LET token_data == AuthService_verify_token(token, t)
    IN  IF token_data = NoTokenData THEN NoRow
        ELSE Repo_get(db, token_data.user_id)

\* AuthService.authenticate_user
authenticate_user(db, email, password) ==
    LET user == get_by_email(db, email)
    IN  IF ~Found(user) THEN NoRow
        ELSE IF ~verify_password(password, user.hashed_password) THEN NoRow
        ELSE user

\* update_last_login leaving the row as it is
update_last_login_skipped(db, user_id, t) == Ok(db, Repo_get(db, user_id))

\* UserRepository.update_last_login
update_last_login(db, user_id, t) == Repo_update(db, user_id, [last_login |-> t])

\* AuthService.login: the table afterwards and the token (NoCreds for None)
AuthService_login(db, user_credentials, t) ==
    LET user == authenticate_user(db, user_credentials.email, user_credentials.password)
    IN  IF ~Found(user) THEN [db |-> db, token |-> NoCreds]
        ELSE [db    |-> update_last_login(db, user.id, t).db,
              token |-> create_access_token(
                           [sub |-> ToStr(user.id), email |-> user.email],
                           access_token_expire_minutes, t)]

\* AuthService.is_active_user
is_active_user(user) == user.is_active

---------------------------------------------------------------------------
(* Response schema and the route dependencies *)

ResponseFields == {"id", "updated_at", "email", "username",
                   "full_name", "is_active", "is_verified", "last_login"}

\* UserResponse.from_orm: the declared fields of the schema, nothing else
UserResponse_from_orm_with_hash(row) ==
    [f \in ResponseFields \cup {"hashed_password"} |-> row[f]]

UserResponse_from_orm(row) == [f \in ResponseFields |-> row[f]]

NoUser == [id |-> 0]

\* attribute access on a schema object: AttributeError for a field the
\* schema does not declare
hasattr(obj, name) == name \in DOMAIN obj

Dep(status, detail, user) == [status |-> status, detail |-> detail, user |-> user]

\* get_current_user without the is_active check
get_current_user_skips_active(db, credentials, t) ==
    LET user == AuthService_get_current_user(db, credentials, t)
    IN  IF credentials = NoCreds THEN Dep(403, "Not authenticated", NoUser)
        ELSE IF ~Found(user) THEN Dep(401, "Could not validate credentials", NoUser)
        ELSE Dep(200, "", UserResponse_from_orm(user))

\* routes/v1/auth.py get_current_user, behind HTTPBearer
get_current_user(db, credentials, t) ==
    LET user == AuthService_get_current_user(db, credentials, t)
    IN  IF credentials = NoCreds THEN Dep(403, "Not authenticated", NoUser)
        ELSE IF ~Found(user) THEN Dep(401, "Could not validate credentials", NoUser)
        ELSE IF ~is_active_user(user) THEN Dep(400, "Inactive user", NoUser)
        ELSE Dep(200, "", UserResponse_from_orm(user))

\* get_current_superuser without the is_superuser check
get_current_superuser_no_check(db, credentials, t) ==
    get_current_user(db, credentials, t)

\* routes/v1/auth.py get_current_superuser: reads current_user.is_superuser
get_current_superuser(db, credentials, t) ==
    LET dep == get_current_user(db, credentials, t)
    IN  IF dep.status # 200 THEN dep
        ELSE IF ~hasattr(dep.user, "is_superuser")
             THEN Dep(500, "Internal server error", NoUser)
        ELSE IF ~dep.user.is_superuser
             THEN Dep(403, "Not enough permissions", NoUser)
        ELSE dep

---------------------------------------------------------------------------
(* The user service *)

\* create_user_unique with the two checks in the other order
create_user_unique_swapped(db, user_data) ==
    IF username_exists(db, user_data.username)
    THEN Raise("ValueError", "Username already taken", db)
    ELSE IF email_exists(db, user_data.email)
    THEN Raise("ValueError", "Email already registered", db)
    ELSE Ok(db, NoRow)

\* UserService.create_user, the uniqueness checks
create_user_unique(db, user_data) ==
    IF email_exists(db, user_data.email)
    THEN Raise("ValueError", "Email already registered", db)
    ELSE IF username_exists(db, user_data.username)
    THEN Raise("ValueError", "Username already taken", db)
    ELSE Ok(db, NoRow)

\* UserService.create_user, hashing: user_data.dict(exclude={"password"})
\* plus the hash
create_user_dict(user_data, salt) ==
    [email           |-> user_data.email,
     username        |-> user_data.username,
     full_name       |-> user_data.full_name,
     is_active       |-> user_data.is_active,
     hashed_password |-> get_password_hash(user_data.password, salt)]

\* UserService.create_user
UserService_create_user(db, user_data, salt) ==
    LET chk == create_user_unique(db, user_data)
    IN  IF chk.tag # "ok" THEN chk
        ELSE Repo_create(db, create_user_dict(user_data, salt))

\* Python truthiness of an Optional field of the update
Truthy(user_data, f) ==
    /\ Has(user_data, f)
    /\ user_data[f] # (IF f = "username" THEN NullName ELSE NullStr)

\* UserService_update_user checking every field carried against all users,
\* the user's own row included
UserService_update_user_checks_all(db, user_id, user_data) ==
    LET user == Repo_get(db, user_id)
    IN  IF ~Found(user) THEN ReturnNone(db)
        ELSE IF Truthy(user_data, "email") /\ email_exists(db, user_data.email)
        THEN Raise("ValueError", "Email already registered", db)
        ELSE IF Truthy(user_data, "username") /\ username_exists(db, user_data.username)
        THEN Raise("ValueError", "Username already taken", db)
        ELSE Repo_update(db, user_id, user_data)

\* UserService.update_user
UserService_update_user(db, user_id, user_data) ==
    LET user == Repo_get(db, user_id)
    IN  IF ~Found(user) THEN ReturnNone(db)
        ELSE IF /\ Truthy(user_data, "email")
                /\ user_data.email # user.email
                /\ email_exists(db, user_data.email)
        THEN Raise("ValueError", "Email already registered", db)
        ELSE IF /\ Truthy(user_data, "username")
                /\ user_data.username # user.username
                /\ username_exists(db, user_data.username)
        THEN Raise("ValueError", "Username already taken", db)
        ELSE Repo_update(db, user_id, user_data)

\* UserService.delete_user
UserService_delete_user(db, user_id) == Repo_delete(db, user_id)

\* UserService.deactivate_user / activate_user / verify_user
UserService_deactivate_user(db, user_id) == Repo_update(db, user_id, [is_active |-> FALSE])
UserService_activate_user(db, user_id) == Repo_update(db, user_id, [is_active |-> TRUE])
UserService_verify_user(db, user_id) == Repo_update(db, user_id, [is_verified |-> TRUE])

\* UserService.get_user
UserService_get_user(db, user_id) == Repo_get(db, user_id)

\* UserService.get_users
UserService_get_users(db, skip, limit, filters) ==
    LET rows == get_multi(db, skip, limit, filters)
    IN  [k \in DOMAIN rows |-> UserResponse_from_orm(rows[k])]

---------------------------------------------------------------------------
(* Requests and responses *)

EmptyBody == [f \in {} |-> TRUE]
NoPending == [email |-> NullStr]

\* the response to a request: the endpoint, the credentials and body it
\* carried, the id of the authenticated caller (0 when none), the path id,
\* the status and detail, the user records of the body, the token issued,
\* and whether the handler body ran
Response(op, creds, caller, target, req, status, detail, body, tok, ran) ==
    [op |-> op, creds |-> creds, caller |-> caller, target |-> target,
     req |-> req, status |-> status, detail |-> detail, body |-> body,
     access_token |-> tok, ran |-> ran]

NoResp == Response("", NoCreds, 0, 0, EmptyBody, 0, "", <<>>, NoCreds, FALSE)

\* a dependency refused the request: the handler body does not run
Refused(op, creds, target, req, dep) ==
    Response(op, creds, 0, target, req, dep.status, dep.detail, <<>>, NoCreds, FALSE)

\* main.py general_exception_handler
InternalError(op, creds, caller, target, req, ran) ==
    Response(op, creds, caller, target, req, 500, "Internal server error", <<>>, NoCreds, ran)

\* main.py validation_exception_handler
Invalid(op, creds, caller, target, req) ==
    Response(op, creds, caller, target, req, 422, "Validation error", <<>>, NoCreds, FALSE)

\* the outcome of a dependency as a response
Denied(op, creds, target, req, dep) ==
    IF dep.status = 500 THEN InternalError(op, creds, 0, target, req, FALSE)
    ELSE Refused(op, creds, target, req, dep)

\* what a client can put in the Authorization header: nothing, junk, a
\* token it holds, or a held token with its expiry extended or re-signed
\* with another key
Tampered(t) == {[t EXCEPT !.exp = @ + access_token_expire_minutes],
                [t EXCEPT !.sig = Sign("attacker-key", t.sub, t.email, t.exp)]}
Credentials == {NoCreds, Garbage} \cup tokens \cup UNION {Tampered(t) : t \in tokens}

---------------------------------------------------------------------------
(* Initial state: the table holds the seeded superuser; a client may hold  *)
(* a token issued to a user whose row has since been removed.              *)

Superuser ==
    [id |-> 1, updated_at |-> 0,
     email |-> AdminEmail, username |-> AdminName, full_name |-> NullStr,
     hashed_password |-> get_password_hash(AdminPw, 1),
     is_active |-> TRUE, is_verified |-> TRUE, is_superuser |-> TRUE,
     last_login |-> NoLogin]

StaleToken ==
    create_access_token([sub |-> ToStr(2), email |-> "a@x.com"],
                        access_token_expire_minutes, 0)

Init ==
    /\ users = (1 :> Superuser)
    /\ tokens \in {{}, {StaleToken}}
    /\ now = 0
    /\ pending = NoPending
    /\ resp = NoResp

---------------------------------------------------------------------------
(* The clock and the clients *)

Tick ==
    /\ resp = NoResp
    /\ now < MaxTicks * TickMinutes
    /\ now' = now + TickMinutes
    /\ UNCHANGED <<users, tokens, pending, resp>>

\* the response goes out; the server is ready for the next request
send_response ==
    /\ resp # NoResp
    /\ resp' = NoResp
    /\ UNCHANGED <<users, tokens, now, pending>>

\* the client keeps a token it is issued while it has room for it
Keep(tok) == IF Cardinality(tokens) < MaxTokens THEN tokens \cup {tok} ELSE tokens

---------------------------------------------------------------------------
(* routes/v1/auth.py.  Each endpoint takes the set its request bodies or   *)
(* path ids are drawn from.                                                *)

\* POST /auth/login
login(bodies) ==
    /\ resp = NoResp
    /\ \E body \in bodies :
        LET r == AuthService_login(users, body, now) IN
        IF ~UserLogin_valid(body)
        THEN /\ resp' = Invalid("login", NoCreds, 0, 0, body)
             /\ UNCHANGED <<users, tokens>>
        ELSE IF r.token = NoCreds
        THEN /\ resp' = Response("login", NoCreds, 0, 0, body, 401,
                                 "Incorrect email or password", <<>>, NoCreds, TRUE)
             /\ UNCHANGED <<users, tokens>>
        ELSE /\ resp' = Response("login", NoCreds, 0, 0, body, 200, "", <<>>, r.token, TRUE)
             /\ users' = r.db
             /\ tokens' = Keep(r.token)
    /\ UNCHANGED <<now, pending>>

\* POST /auth/logout: the server does nothing, the client discards a token
logout ==
    /\ resp = NoResp
    /\ \E t \in tokens : tokens' = tokens \ {t}
    /\ resp' = Response("logout", NoCreds, 0, 0, EmptyBody, 200,
                        "Successfully logged out", <<>>, NoCreds, TRUE)
    /\ UNCHANGED <<users, now, pending>>

\* GET /auth/me
get_current_user_info ==
    /\ resp = NoResp
    /\ \E creds \in Credentials :
        LET dep == get_current_user(users, creds, now) IN
        resp' = IF dep.status # 200
                THEN Denied("get_current_user_info", creds, 0, EmptyBody, dep)
                ELSE Response("get_current_user_info", creds, dep.user.id, 0, EmptyBody,
                              200, "", <<dep.user>>, NoCreds, TRUE)
    /\ UNCHANGED <<users, tokens, now, pending>>

\* POST /auth/change-password
change_password(bodies) ==
    /\ resp = NoResp
    /\ \E creds \in Credentials, body \in bodies, salt \in Salts :
        LET dep == get_current_user(users, creds, now)
            user == Repo_get(users, dep.user.id)
            op == "change_password"
            new_hashed_password == get_password_hash(body.new_password, salt)
        IN
        IF dep.status # 200
        THEN /\ resp' = Denied(op, creds, 0, body, dep)
             /\ users' = users
        ELSE IF ~PasswordChange_valid(body)
        THEN /\ resp' = Invalid(op, creds, dep.user.id, 0, body)
             /\ users' = users
        ELSE IF ~Found(user)
        THEN /\ resp' = Response(op, creds, dep.user.id, 0, body, 404,
                                 "User not found", <<>>, NoCreds, TRUE)
             /\ users' = users
        ELSE IF ~verify_password(body.current_password, user.hashed_password)
        THEN /\ resp' = Response(op, creds, dep.user.id, 0, body, 400,
                                 "Incorrect current password", <<>>, NoCreds, TRUE)
             /\ users' = users
        ELSE /\ resp' = Response(op, creds, dep.user.id, 0, body, 200,
                                 "Password changed successfully", <<>>, NoCreds, TRUE)
             /\ users' = Repo_update(users, user.id,
                                     [hashed_password |-> new_hashed_password]).db
    /\ UNCHANGED <<tokens, now, pending>>

\* POST /auth/verify-token: {"valid": ...} is carried in the detail
verify_token ==
    /\ resp = NoResp
    /\ \E creds \in Credentials :
        LET token_data == AuthService_verify_token(creds, now) IN
        resp' = IF creds = NoCreds
                THEN Refused("verify_token", creds, 0, EmptyBody,
                             Dep(403, "Not authenticated", NoUser))
                ELSE Response("verify_token", creds, 0, 0, EmptyBody, 200,
                              IF token_data # NoTokenData THEN "valid" ELSE "invalid",
                              <<>>, NoCreds, TRUE)
    /\ UNCHANGED <<users, tokens, now, pending>>

---------------------------------------------------------------------------
(* routes/v1/users.py *)

\* the response of POST /users/ to the outcome of UserService.create_user
create_user_response(body, r) ==
    IF r.tag = "ok"
    THEN Response("create_user", NoCreds, 0, 0, body, 201, "",
                  <<UserResponse_from_orm(r.row)>>, NoCreds, TRUE)
    ELSE IF r.tag = "ValueError"
    THEN Response("create_user", NoCreds, 0, 0, body, 400, r.detail, <<>>, NoCreds, TRUE)
    ELSE InternalError("create_user", NoCreds, 0, 0, body, TRUE)

\* POST /users/, served without another request in between
create_user(bodies) ==
    /\ resp = NoResp
    /\ \E body \in bodies, salt \in Salts :
        LET r == UserService_create_user(users, UserCreate_parse(body), salt) IN
        IF ~UserCreate_valid(body)
        THEN /\ resp' = Invalid("create_user", NoCreds, 0, 0, body)
             /\ users' = users
        ELSE /\ DOMAIN r.db \subseteq Ids
             /\ resp' = create_user_response(body, r)
             /\ users' = r.db
    /\ UNCHANGED <<tokens, now, pending>>

\* POST /users/ in another worker, up to the uniqueness checks and the
\* hashing: the insert has not happened yet
create_user_check(bodies) ==
    /\ resp = NoResp
    /\ pending = NoPending
    /\ \E body \in bodies, salt \in Salts :
        /\ UserCreate_valid(body)
        /\ create_user_unique(users, UserCreate_parse(body)).tag = "ok"
        /\ pending' = create_user_dict(UserCreate_parse(body), salt)
    /\ UNCHANGED <<users, tokens, now, resp>>

\* ... and its insert, commit and response
create_user_insert ==
    /\ resp = NoResp
    /\ pending # NoPending
    /\ LET r == Repo_create(users, pending) IN
         /\ DOMAIN r.db \subseteq Ids
         /\ resp' = create_user_response(
                        [email |-> pending.email, username |-> pending.username], r)
         /\ users' = r.db
    /\ pending' = NoPending
    /\ UNCHANGED <<tokens, now>>

\* GET /users/
get_users(queries) ==
    /\ resp = NoResp
    /\ \E creds \in Credentials, q \in queries :
        LET dep == get_current_user(users, creds, now) IN
        resp' = IF dep.status # 200
                THEN Denied("get_users", creds, 0, q, dep)
                ELSE Response("get_users", creds, dep.user.id, 0, q, 200, "",
                              UserService_get_users(users, q.skip, q.limit, q.filters),
                              NoCreds, TRUE)
    /\ UNCHANGED <<users, tokens, now, pending>>

\* GET /users/me
get_my_profile ==
    /\ resp = NoResp
    /\ \E creds \in Credentials :
        LET dep == get_current_user(users, creds, now) IN
        resp' = IF dep.status # 200
                THEN Denied("get_my_profile", creds, 0, EmptyBody, dep)
                ELSE Response("get_my_profile", creds, dep.user.id, 0, EmptyBody,
                              200, "", <<dep.user>>, NoCreds, TRUE)
    /\ UNCHANGED <<users, tokens, now, pending>>

\* GET /users/{user_id}
get_user(ids) ==
    /\ resp = NoResp
    /\ \E creds \in Credentials, user_id \in ids :
        LET dep == get_current_user(users, creds, now)
            current_user == dep.user
            user == UserService_get_user(users, user_id)
            op == "get_user"
        IN
        resp' = IF dep.status # 200
                THEN Denied(op, creds, user_id, EmptyBody, dep)
                ELSE IF ~hasattr(current_user, "is_superuser")
                THEN InternalError(op, creds, current_user.id, user_id, EmptyBody, TRUE)
                ELSE IF ~current_user.is_superuser /\ current_user.id # user_id
                THEN Response(op, creds, current_user.id, user_id, EmptyBody, 403,
                              "Not enough permissions", <<>>, NoCreds, TRUE)
                ELSE IF ~Found(user)
                THEN Response(op, creds, current_user.id, user_id, EmptyBody, 404,
                              "User not found", <<>>, NoCreds, TRUE)
                ELSE Response(op, creds, current_user.id, user_id, EmptyBody, 200, "",
                              <<UserResponse_from_orm(user)>>, NoCreds, TRUE)
    /\ UNCHANGED <<users, tokens, now, pending>>

\* the response of an endpoint that returns the user a service call gave:
\* None is 404, ValueError is 400, any other exception is 500
user_response(op, creds, caller, target, body, r) ==
    IF r.tag = "ok"
    THEN Response(op, creds, caller, target, body, 200, "",
                  <<UserResponse_from_orm(r.row)>>, NoCreds, TRUE)
    ELSE IF r.tag = "none"
    THEN Response(op, creds, caller, target, body, 404, "User not found", <<>>, NoCreds, TRUE)
    ELSE IF r.tag = "ValueError"
    THEN Response(op, creds, caller, target, body, 400, r.detail, <<>>, NoCreds, TRUE)
    ELSE InternalError(op, creds, caller, target, body, TRUE)

\* PUT /users/me
update_my_profile(bodies) ==
    /\ resp = NoResp
    /\ \E creds \in Credentials, body \in bodies :
        LET dep == get_current_user(users, creds, now)
            op == "update_my_profile"
            r == UserService_update_user(users, dep.user.id, UserUpdate_parse(body))
        IN
        IF dep.status # 200
        THEN /\ resp' = Denied(op, creds, 0, body, dep)
             /\ users' = users
        ELSE IF ~UserUpdate_valid(body)
        THEN /\ resp' = Invalid(op, creds, dep.user.id, 0, body)
             /\ users' = users
        ELSE /\ resp' = user_response(op, creds, dep.user.id, 0, body, r)
             /\ users' = r.db
    /\ UNCHANGED <<tokens, now, pending>>

\* PUT /users/{user_id}
update_user(ids, bodies) ==
    /\ resp = NoResp
    /\ \E creds \in Credentials, user_id \in ids, body \in bodies :
        LET dep == get_current_superuser(users, creds, now)
            op == "update_user"
            r == UserService_update_user(users, user_id, UserUpdate_parse(body))
        IN
        IF dep.status # 200
        THEN /\ resp' = Denied(op, creds, user_id, body, dep)
             /\ users' = users
        ELSE IF ~UserUpdate_valid(body)
        THEN /\ resp' = Invalid(op, creds, dep.user.id, user_id, body)
             /\ users' = users
        ELSE /\ resp' = user_response(op, creds, dep.user.id, user_id, body, r)
             /\ users' = r.db
    /\ UNCHANGED <<tokens, now, pending>>

\* DELETE /users/{user_id}
delete_user(ids) ==
    /\ resp = NoResp
    /\ \E creds \in Credentials, user_id \in ids :
        LET dep == get_current_superuser(users, creds, now)
            op == "delete_user"
            r == UserService_delete_user(users, user_id)
        IN
        IF dep.status # 200
        THEN /\ resp' = Denied(op, creds, user_id, EmptyBody, dep)
             /\ users' = users
        ELSE IF dep.user.id = user_id
        THEN /\ resp' = Response(op, creds, dep.user.id, user_id, EmptyBody, 400,
                                 "Cannot delete your own account", <<>>, NoCreds, TRUE)
             /\ users' = users
        ELSE IF r.tag # "ok"
        THEN /\ resp' = Response(op, creds, dep.user.id, user_id, EmptyBody, 404,
                                 "User not found", <<>>, NoCreds, TRUE)
             /\ users' = users
        ELSE /\ resp' = Response(op, creds, dep.user.id, user_id, EmptyBody, 200,
                                 "User deleted successfully", <<>>, NoCreds, TRUE)
             /\ users' = r.db
    /\ UNCHANGED <<tokens, now, pending>>

\* POST /users/{user_id}/activate
activate_user(ids) ==
    /\ resp = NoResp
    /\ \E creds \in Credentials, user_id \in ids :
        LET dep == get_current_superuser(users, creds, now)
            op == "activate_user"
            r == UserService_activate_user(users, user_id)
        IN
        IF dep.status # 200
        THEN /\ resp' = Denied(op, creds, user_id, EmptyBody, dep)
             /\ users' = users
        ELSE /\ resp' = user_response(op, creds, dep.user.id, user_id, EmptyBody, r)
             /\ users' = r.db
    /\ UNCHANGED <<tokens, now, pending>>

\* POST /users/{user_id}/deactivate
deactivate_user(ids) ==
    /\ resp = NoResp
    /\ \E creds \in Credentials, user_id \in ids :
        LET dep == get_current_superuser(users, creds, now)
            op == "deactivate_user"
            r == UserService_deactivate_user(users, user_id)
        IN
        IF dep.status # 200
        THEN /\ resp' = Denied(op, creds, user_id, EmptyBody, dep)
             /\ users' = users
        ELSE IF dep.user.id = user_id
        THEN /\ resp' = Response(op, creds, dep.user.id, user_id, EmptyBody, 400,
                                 "Cannot deactivate your own account", <<>>, NoCreds, TRUE)
             /\ users' = users
        ELSE /\ resp' = user_response(op, creds, dep.user.id, user_id, EmptyBody, r)
             /\ users' = r.db
    /\ UNCHANGED <<tokens, now, pending>>

\* POST /users/{user_id}/verify
verify_user(ids) ==
    /\ resp = NoResp
    /\ \E creds \in Credentials, user_id \in ids :
        LET dep == get_current_superuser(users, creds, now)
            op == "verify_user"
            r == UserService_verify_user(users, user_id)
        IN
        IF dep.status # 200
        THEN /\ resp' = Denied(op, creds, user_id, EmptyBody, dep)
             /\ users' = users
        ELSE /\ resp' = user_response(op, creds, dep.user.id, user_id, EmptyBody, r)
             /\ users' = r.db
    /\ UNCHANGED <<tokens, now, pending>>

---------------------------------------------------------------------------
(* The requests the clients send *)

TargetIds == Ids \cup {AbsentId}

Bob1 == <<"B","o","b","1">>

\* registrations: valid ones, and one failing each validation
CreateBodies ==
    {[email |-> e, username |-> n, password |-> GoodPw] :
        e \in Emails, n \in Names}
    \cup {[email |-> BadEmail, username |-> AdminName, password |-> GoodPw],
          [email |-> AdminEmail, username |-> <<"a","_","b">>, password |-> GoodPw],
          [email |-> AdminEmail, username |-> <<"a","b">>, password |-> GoodPw],
          [email |-> AdminEmail, username |-> AdminName, password |-> WeakPw]}
    \cup {[email |-> "a@x.com", username |-> Bob1, password |-> p] : p \in PolicyProbes}
    \cup {[email |-> "a@x.com", username |-> Bob1, password |-> LongPw],
          [email |-> "a@x.com", username |-> Bob1, password |-> GoodPw,
           is_active |-> FALSE, is_verified |-> TRUE, is_superuser |-> TRUE]}

OneCreate == {[email |-> "a@x.com", username |-> Bob1, password |-> GoodPw]}

\* profile updates: one field each, valid, invalid, explicitly null, and a
\* field the schema does not declare
UpdateBodies ==
    {[email |-> e] : e \in Emails \cup {BadEmail}}
    \cup {[username |-> n] : n \in Names}
    \cup {[is_active |-> FALSE]}
    \cup {[email |-> NullStr], [username |-> NullName],
          [username |-> <<"A","D","M","I","N">>], [is_superuser |-> TRUE]}

Deactivation == {[is_active |-> FALSE]}

LoginBodies ==
    {[email |-> AdminEmail, password |-> AdminPw, confirm_password |-> AdminPw],
     [email |-> "a@x.com", password |-> GoodPw, confirm_password |-> GoodPw],
     [email |-> AdminEmail, password |-> GoodPw, confirm_password |-> GoodPw],
     [email |-> AdminEmail, password |-> AdminPw],
     [email |-> "a@x.com", password |-> GoodPw],
     [email |-> "a@x.com", password |-> LongPw2, confirm_password |-> LongPw2]}

PasswordBodies ==
    {[current_password |-> AdminPw, new_password |-> GoodPw],
     [current_password |-> GoodPw, new_password |-> WeakPw]}

\* password changes: the current password right or wrong, the new one
\* different, the same, weak, or different past the 72nd byte only
PasswordChanges ==
    {[current_password |-> c, new_password |-> n] :
        c \in {AdminPw, GoodPw}, n \in {AdminPw, GoodPw}}
    \cup {[current_password |-> AdminPw, new_password |-> WeakPw],
          [current_password |-> LongPw, new_password |-> LongPw2]}
    \cup {[current_password |-> AdminPw, new_password |-> p] : p \in PolicyProbes}

ListQueries ==
    {[skip |-> 0, limit |-> 100, filters |-> EmptyBody],
     [skip |-> 1, limit |-> 1, filters |-> [is_active |-> Scalar(TRUE)]]}

---------------------------------------------------------------------------
(* Spec: every endpoint, the clock running *)

Next ==
    \/ Tick
    \/ send_response
    \/ login(LoginBodies)
    \/ logout
    \/ get_current_user_info
    \/ change_password(PasswordBodies)
    \/ verify_token
    \/ create_user(OneCreate)
    \/ get_users(ListQueries)
    \/ get_my_profile
    \/ get_user(TargetIds)
    \/ update_my_profile(Deactivation)
    \/ update_user(Ids, Deactivation)
    \/ delete_user(Ids)
    \/ activate_user(Ids)
    \/ deactivate_user(Ids)
    \/ verify_user(Ids)

Spec == Init /\ [][Next]_vars

(* SpecAnswers: every endpoint, the clock standing still *)

NextAnswers ==
    \/ send_response
    \/ login(LoginBodies)
    \/ logout
    \/ get_current_user_info
    \/ change_password(PasswordBodies)
    \/ verify_token
    \/ create_user(OneCreate)
    \/ get_users(ListQueries)
    \/ get_my_profile
    \/ get_user(TargetIds)
    \/ update_my_profile(Deactivation)
    \/ update_user(Ids, Deactivation)
    \/ delete_user(Ids)
    \/ activate_user(Ids)
    \/ deactivate_user(Ids)
    \/ verify_user(Ids)

SpecAnswers == Init /\ [][NextAnswers]_vars

(* SpecStore: registrations, two of them racing, and profile updates, the  *)
(* clock standing still                                                    *)

NextStore ==
    \/ send_response
    \/ login(LoginBodies)
    \/ change_password(PasswordChanges)
    \/ create_user(CreateBodies)
    \/ create_user_check(OneCreate)
    \/ create_user_insert
    \/ update_my_profile(UpdateBodies)
    \/ update_user(Ids, Deactivation)
    \/ delete_user(Ids)
    \/ activate_user(Ids)
    \/ deactivate_user(Ids)
    \/ verify_user(Ids)

SpecStore == Init /\ [][NextStore]_vars

---------------------------------------------------------------------------
(* Properties *)

\* what the properties say of a request's credentials, in the words of the
\* documentation: the token verifies, its user exists, the user is active
Verifies(c, t) ==
    /\ c.sig = Sign(secret_key, c.sub, c.email, c.exp)
    /\ t <= c.exp
    /\ c.sub # NullSub
    /\ c.email # NullStr
Subject(c) == ToInt(c.sub)
Exists(c, db, t) == Verifies(c, t) /\ Subject(c) \in DOMAIN db
Authenticated(c, db, t) == Exists(c, db, t) /\ db[Subject(c)].is_active

\* the endpoints behind get_current_user, and those behind
\* get_current_superuser
SuperuserOps == {"update_user", "delete_user", "activate_user",
                 "deactivate_user", "verify_user"}
ProtectedOps == {"get_current_user_info", "change_password", "get_users",
                 "get_my_profile", "get_user", "update_my_profile"}
                    \cup SuperuserOps

\* C1: no two distinct stored users have the same email, and no two have
\* the same username, whatever registrations (racing ones included),
\* updates, password changes, logins and activation calls came before
C1_Unique ==
    \A i, j \in DOMAIN users :
        i # j => /\ users[i].email # users[j].email
                 /\ users[i].username # users[j].username

\* two users are stored and the last request changed the table
C1_Witness ==
    /\ Cardinality(DOMAIN users) = 2
    /\ resp.op \in {"create_user", "update_my_profile"}
    /\ resp.status \in {200, 201}

\* C2 (as the code has it): a request to an endpoint behind get_current_user
\* runs its handler only if the token verifies, its user exists and the
\* user is active; otherwise the handler does not run, the table is left as
\* it was, and the answer is 403 without credentials, 401 for a token that
\* does not verify or whose user is gone, and 400 for an inactive user
C2_Rejected ==
    [][resp'.op \in ProtectedOps =>
        /\ resp'.ran => Authenticated(resp'.creds, users, now)
        /\ ~Authenticated(resp'.creds, users, now) =>
            /\ ~resp'.ran
            /\ users' = users
            /\ resp'.status =
                 IF resp'.creds = NoCreds THEN 403
                 ELSE IF ~Exists(resp'.creds, users, now) THEN 401
                 ELSE 400]_vars

\* an inactive user's request was turned away
C2_Witness ==
    /\ resp.op \in ProtectedOps
    /\ Exists(resp.creds, users, now)
    /\ ~users[Subject(resp.creds)].is_active
    /\ resp.status = 400
    /\ ~resp.ran

\* C2 as written: every request that is not served is answered 401 or 403
C2_Original ==
    [][resp'.op \in ProtectedOps /\ ~Authenticated(resp'.creds, users, now) =>
        /\ ~resp'.ran
        /\ users' = users
        /\ resp'.status \in {401, 403}]_vars

\* the change a superuser endpoint is to make to its target
Applied(op, target, req, db) ==
    CASE op = "delete_user"     -> target \notin DOMAIN db
      [] op = "activate_user"   -> target \in DOMAIN db /\ db[target].is_active
      [] op = "deactivate_user" -> target \in DOMAIN db /\ ~db[target].is_active
      [] op = "verify_user"     -> target \in DOMAIN db /\ db[target].is_verified
      [] op = "update_user"     ->
            /\ target \in DOMAIN db
            /\ \A f \in DOMAIN req \cap {"is_active"} : db[target][f] = req[f]

\* C3: on the superuser endpoints an active superuser acting on another
\* existing user gets 200 and the change is made; an authenticated caller
\* who is not a superuser gets 403 "Not enough permissions" and nothing
\* changes
C3_SuperuserOnly ==
    [][resp'.op \in SuperuserOps /\ Authenticated(resp'.creds, users, now) =>
        LET caller == users[Subject(resp'.creds)]
            target == resp'.target
        IN  IF caller.is_superuser
            THEN target \in DOMAIN users /\ target # caller.id =>
                    /\ resp'.status = 200
                    /\ Applied(resp'.op, target, resp'.req, users')
            ELSE /\ resp'.status = 403
                 /\ resp'.detail = "Not enough permissions"
                 /\ users' = users]_vars

\* C4: no request made with the token of an active superuser leaves that
\* superuser inactive
C4_NoSelfDeactivation ==
    [][resp'.op \in ProtectedOps /\ Authenticated(resp'.creds, users, now)
          /\ users[Subject(resp'.creds)].is_superuser =>
        /\ Subject(resp'.creds) \in DOMAIN users'
        /\ users'[Subject(resp'.creds)].is_active]_vars

\* C5: a superuser who calls deactivate or delete on their own id gets 400
\* and the record stays as it was
C5_SelfTarget ==
    [][resp'.op \in {"deactivate_user", "delete_user"}
          /\ Authenticated(resp'.creds, users, now)
          /\ users[Subject(resp'.creds)].is_superuser
          /\ resp'.target = Subject(resp'.creds) =>
        /\ resp'.status = 400
        /\ users' = users]_vars

\* C6: GET /users/{id} by an authenticated user who is not a superuser is
\* 403 for another id and 200 with the caller's own record for their own
C6_GetUser ==
    resp.op = "get_user" /\ Authenticated(resp.creds, users, now)
        /\ ~users[Subject(resp.creds)].is_superuser =>
      IF resp.target # Subject(resp.creds)
      THEN resp.status = 403
      ELSE /\ resp.status = 200
           /\ resp.body = <<UserResponse_from_orm(users[Subject(resp.creds)])>>

\* C7: a 200 answer to a caller who is not a superuser carries no record
\* but the caller's own
C7_OwnRecordOnly ==
    resp.status = 200 /\ resp.caller \in DOMAIN users
        /\ ~users[resp.caller].is_superuser =>
      \A k \in DOMAIN resp.body : resp.body[k].id = resp.caller

\* the stored emails and usernames
HeldEmails(db) == {db[i].email : i \in DOMAIN db}
HeldUsernames(db) == {db[i].username : i \in DOMAIN db}

\* C8: a well-formed registration, handled in one piece, whose email is
\* held by a stored user gets 400 "Email already registered" whatever its
\* username; one whose email is free and whose username is held gets 400
\* "Username already taken"; neither changes the table
C8_Duplicate ==
    [][resp'.op = "create_user" /\ pending' = pending
          /\ UserCreate_valid(resp'.req) =>
        LET user_data == UserCreate_parse(resp'.req) IN
        /\ user_data.email \in HeldEmails(users) =>
            /\ resp'.status = 400
            /\ resp'.detail = "Email already registered"
            /\ users' = users
        /\ user_data.email \notin HeldEmails(users)
              /\ user_data.username \in HeldUsernames(users) =>
            /\ resp'.status = 400
            /\ resp'.detail = "Username already taken"
            /\ users' = users]_vars

\* a registration whose email and username are both held was answered with
\* the email conflict
C8_Witness ==
    /\ resp.op = "create_user"
    /\ UserCreate_valid(resp.req)
    /\ resp.req.email \in HeldEmails(users)
    /\ UserCreate_parse(resp.req).username \in HeldUsernames(users)
    /\ resp.status = 400
    /\ resp.detail = "Email already registered"

\* C9: the token a login returns expires at the login time plus the
\* configured lifetime and verifies at once; a token the server issued
\* verifies before its expiry and fails after it; a token whose claims or
\* signature are not the server's never verifies
C9_TokenLifetime ==
    /\ resp.op = "login" /\ resp.status = 200 =>
        /\ resp.access_token.exp = now + access_token_expire_minutes
        /\ AuthService_verify_token(resp.access_token, now) # NoTokenData
    /\ resp.op = "verify_token" /\ resp.status = 200 =>
        /\ resp.creds \in tokens /\ now < resp.creds.exp => resp.detail = "valid"
        /\ resp.creds \in tokens /\ now > resp.creds.exp => resp.detail = "invalid"
        /\ resp.creds \notin tokens => resp.detail = "invalid"

\* an issued token was presented after its expiry and failed
C9_Witness ==
    /\ resp.op = "verify_token"
    /\ resp.creds \in tokens
    /\ now > resp.creds.exp
    /\ resp.detail = "invalid"

\* what verify-token is to answer, from the token and the clock alone
Verdict(c, t) == IF Verifies(c, t) THEN "valid" ELSE "invalid"

\* C10: the answer of verify-token is a function of the token and the
\* clock: it is the same whether the token's user is stored or not, active
\* or not, and whatever their password now is
C10_Stateless ==
    resp.op = "verify_token" /\ resp.status = 200 =>
        resp.detail = Verdict(resp.creds, now)

\* the token of a user who has since been deactivated was found valid
C10_Witness ==
    /\ resp.op = "verify_token"
    /\ resp.detail = "valid"
    /\ Subject(resp.creds) \in DOMAIN users
    /\ ~users[Subject(resp.creds)].is_active

\* C11: a login whose email is unknown or whose password does not match is
\* answered 401 "Incorrect email or password" in both cases, and no token
\* is issued
C11_FailsClosed ==
    resp.op = "login" /\ {"email", "password"} \subseteq DOMAIN resp.req
        /\ ValidEmail(resp.req.email)
        /\ ~Found(authenticate_user(users, resp.req.email, resp.req.password)) =>
      /\ resp.status = 401
      /\ resp.detail = "Incorrect email or password"
      /\ resp.access_token = NoCreds

\* C12: a login whose body is the email and the correct password of a
\* stored user, and nothing else, is answered 200 with a token, and that
\* token presented to GET /users/me or GET /auth/me resolves to the user
\* who logged in
C12_LoginSucceeds ==
    resp.op = "login" /\ DOMAIN resp.req = {"email", "password"}
        /\ ValidEmail(resp.req.email)
        /\ Found(authenticate_user(users, resp.req.email, resp.req.password)) =>
      /\ resp.status = 200
      /\ resp.access_token # NoCreds
      /\ get_current_user(users, resp.access_token, now)
            = Dep(200, "", UserResponse_from_orm(get_by_email(users, resp.req.email)))

\* C13: after a successful registration the stored hash verifies against
\* the submitted password and against no other password, and the row has
\* no field holding the password itself
C13_HashRoundTrip ==
    resp.op = "create_user" /\ resp.status = 201 /\ Has(resp.req, "password") =>
      LET row == users[resp.body[1].id] IN
      /\ verify_password(resp.req.password, row.hashed_password)
      /\ \A i \in DOMAIN Passwords :
            Passwords[i] # resp.req.password =>
                ~verify_password(Passwords[i], row.hashed_password)
      /\ DOMAIN row = RowFields
      /\ "password" \notin DOMAIN row

\* the stores that differ from db in the users' password hashes only
Hashes == {get_password_hash(p, salt) : p \in {AdminPw, GoodPw}, salt \in Salts}
Rehashed(db) ==
    {[i \in DOMAIN db |-> [db[i] EXCEPT !.hashed_password = h[i]]] :
        h \in [DOMAIN db -> Hashes]}

\* the two stores answer alike on register, /auth/me and /users/me, list,
\* get, update, activate, deactivate and verify
SameUserData(db, other, t) ==
    /\ \A c \in Credentials :
        /\ get_current_user(db, c, t) = get_current_user(other, c, t)
        /\ get_current_superuser(db, c, t) = get_current_superuser(other, c, t)
    /\ \A q \in ListQueries :
        UserService_get_users(db, q.skip, q.limit, q.filters)
            = UserService_get_users(other, q.skip, q.limit, q.filters)
    /\ \A id \in TargetIds :
        /\ Found(UserService_get_user(db, id)) = Found(UserService_get_user(other, id))
        /\ Found(UserService_get_user(db, id)) =>
              UserResponse_from_orm(UserService_get_user(db, id))
                = UserResponse_from_orm(UserService_get_user(other, id))
        /\ user_response("activate_user", NoCreds, 0, id, EmptyBody,
                         UserService_activate_user(db, id))
             = user_response("activate_user", NoCreds, 0, id, EmptyBody,
                             UserService_activate_user(other, id))
        /\ user_response("deactivate_user", NoCreds, 0, id, EmptyBody,
                         UserService_deactivate_user(db, id))
             = user_response("deactivate_user", NoCreds, 0, id, EmptyBody,
                             UserService_deactivate_user(other, id))
        /\ user_response("verify_user", NoCreds, 0, id, EmptyBody,
                         UserService_verify_user(db, id))
             = user_response("verify_user", NoCreds, 0, id, EmptyBody,
                             UserService_verify_user(other, id))
        /\ \A b \in UpdateBodies :
              user_response("update_user", NoCreds, 0, id, b,
                            UserService_update_user(db, id, UserUpdate_parse(b)))
                = user_response("update_user", NoCreds, 0, id, b,
                                UserService_update_user(other, id, UserUpdate_parse(b)))
    /\ \A b \in CreateBodies, salt \in Salts :
        UserCreate_valid(b) =>
            create_user_response(b, UserService_create_user(db, UserCreate_parse(b), salt))
              = create_user_response(b, UserService_create_user(other, UserCreate_parse(b), salt))

\* the two stores answer alike on login
SameLogin(db, other, t) ==
    \A b \in LoginBodies :
        UserLogin_valid(b) =>
            AuthService_login(db, b, t).token = AuthService_login(other, b, t).token

C15_RemovalOnlyByDelete ==
    [][DOMAIN users \ DOMAIN users' # {} =>
        /\ resp'.op = "delete_user"
        /\ Authenticated(resp'.creds, users, now)
        /\ users[Subject(resp'.creds)].is_superuser
        /\ resp'.target # Subject(resp'.creds)
        /\ DOMAIN users \ DOMAIN users' = {resp'.target}]_vars

\* a user who is not a superuser asked for the deletion of a stored user,
\* and the row is still there
C15_Witness ==
    /\ resp.op = "delete_user"
    /\ Authenticated(resp.creds, users, now)
    /\ ~users[Subject(resp.creds)].is_superuser
    /\ resp.target \in DOMAIN users

\* C16: a registration answered 201 has stored a row with is_active true
\* and is_verified false, and shows both in its body, whatever the request
\* carried
C16_RegistrationFlags ==
    resp.op = "create_user" /\ resp.status = 201 =>
      LET row == users[resp.body[1].id] IN
      /\ row.is_active /\ ~row.is_verified
      /\ resp.body[1].is_active /\ ~resp.body[1].is_verified

\* C17: an update of the caller's profile whose email or username is the
\* caller's own current one is not a conflict and is applied with 200; one
\* that changes the email or the username to a value another user holds is
\* answered 400 and the table stays as it was
C17_UpdateUniqueness ==
    [][resp'.op = "update_my_profile" /\ Authenticated(resp'.creds, users, now)
          /\ UserUpdate_valid(resp'.req)
          /\ (\A h \in DOMAIN resp'.req \cap {"email", "username"} :
                Truthy(resp'.req, h)) =>
        LET me == users[Subject(resp'.creds)]
            user_data == UserUpdate_parse(resp'.req)
            Taken(g) == /\ g \in DOMAIN user_data
                        /\ user_data[g] # me[g]
                        /\ \E j \in DOMAIN users \ {me.id} : users[j][g] = user_data[g]
        IN  IF Taken("email") \/ Taken("username")
            THEN resp'.status = 400 /\ users' = users
            ELSE /\ resp'.status = 200
                 /\ users' = [users EXCEPT ![me.id] =
                        [f \in RowFields |->
                            IF f \in DOMAIN user_data THEN user_data[f] ELSE me[f]]]]_vars

\* with another user stored, an update carrying an email was applied: the
\* email is the caller's own, the only one not held by the other user
C17_Witness ==
    /\ resp.op = "update_my_profile"
    /\ resp.status = 200
    /\ "email" \in DOMAIN resp.req
    /\ Cardinality(DOMAIN users) = 2

\* C18: activate, deactivate and verify called by an active superuser: on
\* an absent id 404 and the table unchanged; on a stored user (for
\* deactivate, not the caller) 200, the table changed in that one flag of
\* that one user and in nothing else, so that a second call changes
\* nothing, and the body showing the flags stored
C18_FlagOperations ==
    [][resp'.op \in {"activate_user", "deactivate_user", "verify_user"}
          /\ Authenticated(resp'.creds, users, now)
          /\ users[Subject(resp'.creds)].is_superuser =>
        LET id == resp'.target IN
        IF id \notin DOMAIN users
        THEN resp'.status = 404 /\ users' = users
        ELSE IF resp'.op = "deactivate_user" /\ id = Subject(resp'.creds)
        THEN users' = users
        ELSE /\ resp'.status = 200
             /\ users' = CASE resp'.op = "activate_user" ->
                                [users EXCEPT ![id].is_active = TRUE]
                           [] resp'.op = "deactivate_user" ->
                                [users EXCEPT ![id].is_active = FALSE]
                           [] resp'.op = "verify_user" ->
                                [users EXCEPT ![id].is_verified = TRUE]
             /\ resp'.body = <<UserResponse_from_orm(users'[id])>>]_vars

---------------------------------------------------------------------------
(* SpecFlags: a superuser administering the flags of another user.  The    *)
(* clock stands still, so a token once issued stays valid; the superuser   *)
(* keeps sending each of the flag requests for the other user, and every   *)
(* response goes out.                                                      *)

AdminLogin ==
    {[email |-> AdminEmail, password |-> AdminPw, confirm_password |-> AdminPw]}

\* the user the superuser administers: the first one to register after the
\* seeded superuser
Other == NextId(1 :> Superuser)

\* request A, sent by an active superuser with a valid token for the other
\* user
BySuperuser(A) ==
    /\ A
    /\ Authenticated(resp'.creds, users, now)
    /\ users[Subject(resp'.creds)].is_superuser
    /\ resp'.target = Other

NextFlags ==
    \/ send_response
    \/ login(AdminLogin)
    \/ create_user(OneCreate)
    \/ get_user(Ids)
    \/ activate_user(Ids)
    \/ deactivate_user(Ids)
    \/ verify_user(Ids)
    \/ update_user(Ids, Deactivation)

SpecFlags ==
    /\ Init
    /\ [][NextFlags]_vars
    /\ WF_vars(send_response)
    /\ SF_vars(BySuperuser(activate_user(Ids)))
    /\ SF_vars(BySuperuser(deactivate_user(Ids)))
    /\ SF_vars(BySuperuser(verify_user(Ids)))

\* the other user is stored and an active superuser holds a valid token
Administered ==
    /\ Other \in DOMAIN users
    /\ \E t \in tokens :
          Authenticated(t, users, now) /\ users[Subject(t)].is_superuser

\* C19: the flags of a user other than the acting superuser have no
\* terminal state: while the superuser keeps administering the user, each
\* of the four combinations of is_active and is_verified is reached again
\* and again from wherever the flags stand
C19_NoTerminalState ==
    \A a \in BOOLEAN, v \in BOOLEAN :
        [](Administered =>
             <>(/\ Other \in DOMAIN users
                /\ users[Other].is_active = a
                /\ users[Other].is_verified = v))

---------------------------------------------------------------------------
(* Username normalisation *)

\* C21: lowering a username twice is lowering it once; a username accepted
\* by a registration or a profile update is stored as its lowercase form;
\* and a registration, or a profile update by another user, whose username
\* lowers to a stored one is answered 400 and changes nothing, in whatever
\* letter case it was submitted
C21_UsernameNormalized ==
    [][resp'.op \in {"create_user", "update_my_profile"}
          /\ Has(resp'.req, "username") /\ resp'.req.username # NullName
          /\ resp'.status # 422 =>
        LET u == resp'.req.username
            holders == {j \in DOMAIN users : users[j].username = lower(u)}
        IN  /\ lower(lower(u)) = lower(u)
            /\ resp'.status \in {200, 201} =>
                  users'[resp'.body[1].id].username = lower(u)
            /\ resp'.op = "create_user" /\ pending' = pending /\ holders # {} =>
                  resp'.status = 400 /\ users' = users
            /\ resp'.op = "update_my_profile"
                  /\ Authenticated(resp'.creds, users, now)
                  /\ holders \ {Subject(resp'.creds)} # {} =>
                  /\ resp'.status = 400
                  /\ resp'.detail = "Username already taken"
                  /\ users' = users]_vars

\* a registration carrying a stored username in another letter case, with an
\* email nobody holds, was refused as a duplicate
C21_Witness ==
    /\ resp.op = "create_user"
    /\ resp.status = 400
    /\ resp.detail = "Username already taken"
    /\ resp.req.username # lower(resp.req.username)
    /\ lower(resp.req.username) \in HeldUsernames(users)

---------------------------------------------------------------------------
(* Password policy *)

\* the policy in the words of the documentation
Policy(v) ==
    /\ Len(v) >= 8
    /\ Range(v) \cap (Range(UPPER) \cup {DotI}) # {}
    /\ Range(v) \cap Range(LOWER) # {}
    /\ Range(v) \cap DIGITS # {}

---------------------------------------------------------------------------
(* Registrations racing each other *)

\* C23: however two registrations carrying the same email or username
\* interleave, afterwards at most one stored user has that email
\* (username), the request is answered 201 exactly when it stored a row,
\* and the request that stores nothing is answered with the conflict
\* response, 400
C23_RaceConflict ==
    [][resp'.op = "create_user" /\ resp'.status # 422 =>
        LET e == resp'.req.email
            u == lower(resp'.req.username)
        IN  /\ Cardinality({i \in DOMAIN users' : users'[i].email = e}) <= 1
            /\ Cardinality({i \in DOMAIN users' : users'[i].username = u}) <= 1
            /\ resp'.status = 201 <=> users' # users
            /\ users' = users => resp'.status = 400]_vars

---------------------------------------------------------------------------
(* SpecProfile: registrations and profile updates with usernames outside   *)
(* ASCII, full names and explicit nulls, the clock standing still          *)

ProfileCreates ==
    OneCreate \cup {[email |-> "a@x.com", username |-> DotName, password |-> GoodPw]}

ProfileLogins ==
    {[email |-> AdminEmail, password |-> AdminPw, confirm_password |-> AdminPw],
     [email |-> "a@x.com", password |-> GoodPw, confirm_password |-> GoodPw]}

ProfileUpdates ==
    {[email |-> NullStr], [username |-> NullName], [username |-> DotName],
     [username |-> Bob1], [email |-> "a@x.com"],
     [full_name |-> "Alice"], [full_name |-> NullStr],
     [is_active |-> FALSE], [is_superuser |-> TRUE],
     [full_name |-> "Alice", username |-> AdminName]}

NextProfile ==
    \/ send_response
    \/ create_user(ProfileCreates)
    \/ login(ProfileLogins)
    \/ update_my_profile(ProfileUpdates)

SpecProfile == Init /\ [][NextProfile]_vars

---------------------------------------------------------------------------
(* Well-formed records *)

\* C24: every stored user has an email and a username that are not null, a
\* username of letters and digits only that is its own lowercase form, and
\* a hashed_password that is the hash of some password, whatever
\* registrations and profile updates (those setting email or username to
\* null included) came before
C24_WellFormed ==
    \A i \in DOMAIN users :
        /\ users[i].email # NullStr
        /\ users[i].username # NullName
        /\ isalnum(users[i].username)
        /\ lower(users[i].username) = users[i].username
        /\ \E p \in Range(Passwords), salt \in Salts :
              users[i].hashed_password = get_password_hash(p, salt)

---------------------------------------------------------------------------
(* Profile updates *)

\* C25: an update by an authenticated caller (PUT /users/me on the caller,
\* PUT /users/{id} by a superuser on the id) of an id that is not stored is
\* answered 404 and changes nothing; one answered 200 has set exactly the
\* fields present in the body to the values supplied and has left every
\* other field of that record, and every other record, as it was
C25_UpdateFrame ==
    [][resp'.op \in {"update_my_profile", "update_user"}
          /\ Authenticated(resp'.creds, users, now)
          /\ (resp'.op = "update_user" => users[Subject(resp'.creds)].is_superuser) =>
        LET id == IF resp'.op = "update_user" THEN resp'.target
                  ELSE Subject(resp'.creds)
            data == UserUpdate_parse(resp'.req)
        IN  /\ id \notin DOMAIN users => resp'.status = 404 /\ users' = users
            /\ resp'.status = 200 =>
                  /\ DOMAIN users' = DOMAIN users
                  /\ \A f \in DOMAIN data : users'[id][f] = data[f]
                  /\ \A f \in RowFields \ DOMAIN data : users'[id][f] = users[id][f]
                  /\ \A j \in DOMAIN users \ {id} : users'[j] = users[j]]_vars

---------------------------------------------------------------------------
(* Login *)

\* the stored user a login body authenticates as: its email is the body's
\* and its hash verifies the body's password
Correct(body, db) ==
    {i \in DOMAIN db : /\ db[i].email = body.email
                       /\ verify_password(body.password, db[i].hashed_password)}

\* C26: a login answered 200 has set last_login (and updated_at) of the
\* user it authenticated to the time of the login, and nothing else in the
\* table, and its token is that user's; a login answered otherwise leaves
\* the table as it was; a well-formed login is answered 200 exactly when
\* its email and password are those of a stored user, and 401 otherwise
C26_LoginStamp ==
    [][resp'.op = "login" =>
        /\ resp'.status = 200 =>
              \E i \in Correct(resp'.req, users) :
                  /\ users' = [users EXCEPT ![i].last_login = now,
                                            ![i].updated_at = now]
                  /\ resp'.access_token.sub = ToStr(i)
        /\ resp'.status # 200 => users' = users
        /\ UserLogin_valid(resp'.req) =>
              resp'.status = IF Correct(resp'.req, users) # {} THEN 200 ELSE 401]_vars

\* with two users stored and the clock advanced, a login stamped its user
C26_Witness ==
    /\ resp.op = "login"
    /\ resp.status = 200
    /\ now > 0
    /\ Cardinality(DOMAIN users) = 2
    /\ users[Subject(resp.access_token)].last_login = now

---------------------------------------------------------------------------
(* Deletion *)

\* C27: DELETE /users/{id} by an active superuser on an id other than their
\* own is answered 404, the table unchanged, when the id is not stored, and
\* otherwise 200, with that row removed and every other row as it was; and
\* a token issued to a user whose row has been removed is answered 401 on
\* every endpoint behind the bearer check
C27_Delete ==
    [][/\ resp'.op = "delete_user"
             /\ Authenticated(resp'.creds, users, now)
             /\ users[Subject(resp'.creds)].is_superuser
             /\ resp'.target # Subject(resp'.creds) =>
          IF resp'.target \notin DOMAIN users
          THEN resp'.status = 404 /\ users' = users
          ELSE /\ resp'.status = 200
               /\ users' = [i \in DOMAIN users \ {resp'.target} |-> users[i]]
       /\ resp'.op \in ProtectedOps /\ resp'.creds = StaleToken =>
          resp'.status = 401]_vars

---------------------------------------------------------------------------
(* SpecRepo: the repository called directly, as a service may call it,     *)
(* with filter maps and field maps of any names.  The value returned is    *)
(* carried in resp: the rows in its body, the outcome in its detail.       *)

\* BaseRepository.count
count(db, filters) == Cardinality({i \in DOMAIN db : Matches(db[i], filters)})

\* filter maps: none, one column, two columns, lists, a name the model
\* does not have, alone and beside a column, and the property of the model
RepoFilters ==
    {EmptyBody,
     [is_active |-> Scalar(TRUE)],
     [is_active |-> Scalar(TRUE), is_verified |-> Scalar(FALSE)],
     [id |-> List({1, 2})],
     [id |-> List({2, AbsentId})],
     [email |-> List({"a@x.com"}), is_active |-> Scalar(TRUE)],
     [nickname |-> Scalar("x")],
     [is_active |-> Scalar(FALSE), nickname |-> List({"x"})],
     [is_authenticated |-> Scalar(TRUE)]}

RepoQueries ==
    {[skip |-> s, limit |-> l, filters |-> f] :
        s \in 0..1, l \in 1..2, f \in RepoFilters}

\* field maps for update
RepoUpdates ==
    {[is_verified |-> TRUE],
     [is_active |-> FALSE],
     [full_name |-> "Alice", nickname |-> "x"],
     [nickname |-> "x"],
     [can_access_admin |-> TRUE],
     [is_authenticated |-> FALSE]}

\* a call of BaseRepository.get_multi
BaseRepository_get_multi(queries) ==
    /\ resp = NoResp
    /\ \E q \in queries :
        resp' = Response("BaseRepository.get_multi", NoCreds, 0, 0, q, 0, "ok",
                         get_multi(users, q.skip, q.limit, q.filters), NoCreds, TRUE)
    /\ UNCHANGED <<users, tokens, now, pending>>

\* a call of BaseRepository.count
BaseRepository_count(maps) ==
    /\ resp = NoResp
    /\ \E filters \in maps :
        resp' = Response("BaseRepository.count", NoCreds, 0, 0, filters, 0, "ok",
                         <<[count |-> count(users, filters)]>>, NoCreds, TRUE)
    /\ UNCHANGED <<users, tokens, now, pending>>

\* a call of BaseRepository.update
BaseRepository_update(ids, maps) ==
    /\ resp = NoResp
    /\ \E id \in ids, obj_in \in maps :
        LET r == Repo_update(users, id, obj_in) IN
        /\ resp' = Response("BaseRepository.update", NoCreds, 0, id, obj_in, 0, r.tag,
                            IF r.tag = "ok" THEN <<r.row>> ELSE <<>>, NoCreds, TRUE)
        /\ users' = r.db
    /\ UNCHANGED <<tokens, now, pending>>

NextRepo ==
    \/ send_response
    \/ create_user(CreateBodies)
    \/ BaseRepository_get_multi(RepoQueries)
    \/ BaseRepository_count(RepoFilters)
    \/ BaseRepository_update(TargetIds, RepoUpdates)

SpecRepo == Init /\ [][NextRepo]_vars

\* the rows a filter map selects when the names that are no column of the
\* model are left out of it
Selected(db, filters) ==
    {i \in DOMAIN db :
        \A f \in DOMAIN filters \cap RowFields :
            IF filters[f].list THEN db[i][f] \in filters[f].v
            ELSE db[i][f] = filters[f].v}

\* C28: get_multi and count give what they give for the filter map without
\* the names that are no column: the rows satisfying every remaining
\* filter (a list as membership, another value as equality), get_multi at
\* most limit of them after skipping skip; update sets exactly the entries
\* that name a column, raises nothing for the others, and is None for an
\* absent id
C28_UnknownIgnored ==
    [][/\ resp'.op = "BaseRepository.get_multi" =>
          LET q == resp'.req
              n == Cardinality(Selected(users, q.filters))
          IN  /\ resp'.body = get_multi(users, q.skip, q.limit,
                                 [f \in DOMAIN q.filters \cap RowFields |-> q.filters[f]])
              /\ \A k \in DOMAIN resp'.body :
                    resp'.body[k].id \in Selected(users, q.filters)
              /\ Len(resp'.body) =
                    IF n - q.skip <= 0 THEN 0
                    ELSE IF n - q.skip < q.limit THEN n - q.skip ELSE q.limit
       /\ resp'.op = "BaseRepository.count" =>
          resp'.body[1].count = Cardinality(Selected(users, resp'.req))
       /\ resp'.op = "BaseRepository.update" =>
          LET id == resp'.target
              obj_in == resp'.req
          IN  IF id \notin DOMAIN users
              THEN resp'.detail = "none" /\ users' = users
              ELSE /\ resp'.detail = "ok"
                   /\ DOMAIN users' = DOMAIN users
                   /\ \A j \in DOMAIN users \ {id} : users'[j] = users[j]
                   /\ \A f \in RowFields \ {"updated_at"} :
                         users'[id][f] = IF f \in DOMAIN obj_in THEN obj_in[f]
                                         ELSE users[id][f]]_vars

---------------------------------------------------------------------------
(* The superuser flag *)

---------------------------------------------------------------------------
(* Inactive users *)

\* C30: a well-formed login with the email and password of a stored user
\* is answered 200 with that user's token and stamps last_login, whether
\* the user is active or not; a request to an endpoint behind the bearer
\* check with the valid token of an inactive user is answered 400 and does
\* nothing; and once an active superuser has called activate on the user,
\* the user is active, so that the same token is accepted again
C30_InactiveLogin ==
    [][/\ resp'.op = "login" /\ UserLogin_valid(resp'.req)
             /\ Correct(resp'.req, users) # {} =>
          /\ resp'.status = 200
          /\ Subject(resp'.access_token) \in Correct(resp'.req, users)
          /\ users'[Subject(resp'.access_token)].last_login = now
       /\ resp'.op \in ProtectedOps /\ Exists(resp'.creds, users, now)
             /\ ~users[Subject(resp'.creds)].is_active =>
          /\ resp'.status = 400
          /\ ~resp'.ran
          /\ users' = users
       /\ resp'.op = "activate_user" /\ Authenticated(resp'.creds, users, now)
             /\ users[Subject(resp'.creds)].is_superuser
             /\ resp'.target \in DOMAIN users
             /\ ~users[resp'.target].is_active =>
          /\ resp'.status = 200
          /\ users'[resp'.target].is_active]_vars

=============================================================================
